---- MODULE Spec2Model ----
(***************************************************************************)
(* Model of src/etapa2_estatisticas_filmes.py: the class EstatisticasFilmes *)
(* (loading of the catalogue, the aggregate operations, the two reports and *)
(* the demonstration) and main().                                           *)
(*                                                                         *)
(* Ratings are Python floats.  A float is modelled as an IEEE-754 binary64  *)
(* value: a record [m, e] of value m * 2^e whose significand m is a natural *)
(* number of exactly Precisao bits (or 0, for 0.0).  A significand does not *)
(* fit an integer of the model checker, so naturals of that size are kept   *)
(* as sequences of limbs in base Base, least significant first, without     *)
(* leading zero limbs.  Only values >= 0 occur (ratings lie in 0..10).      *)
(* Every arithmetic step rounds to nearest, ties to even, as the            *)
(* interpreter's float arithmetic does.                                     *)
(***************************************************************************)
EXTENDS Integers, Sequences, FiniteSets, TLC

\* ------------------------------------------------------------------------
\* Naturals of arbitrary size
\* ------------------------------------------------------------------------

\* F(v), with v evaluated once and used as a value (let-by-value); Seja2 for
\* two values.
Seja(v, F(_)) == CHOOSE y \in { F(x) : x \in { v } } : TRUE
Seja2(v, w, F(_, _)) == CHOOSE y \in { F(x, z) : x \in { v }, z \in { w } } : TRUE

Base == 2^15
BitsLimbo == CHOOSE k \in 1..30 : 2^k = Base

\* a without its most significant zero limbs.
Norm(a) ==
    SubSeq(a, 1, Cardinality({ i \in 1..Len(a) : \E j \in i..Len(a) : a[j] # 0 }))

Limbo(a, i) == IF i <= Len(a) THEN a[i] ELSE 0

\* The limbs of a natural number of the model checker.
RECURSIVE DeNat(_)
DeNat(k) == IF k = 0 THEN << >> ELSE << k % Base >> \o DeNat(k \div Base)

\* The natural number a (small) limb sequence denotes.
RECURSIVE ParaNat(_)
ParaNat(a) == IF a = << >> THEN 0 ELSE Head(a) + Base * ParaNat(Tail(a))

\* Limbs i.. of a + b + c.
RECURSIVE SomaDesde(_, _, _, _)
SomaDesde(a, b, i, c) ==
    IF i > Len(a) /\ i > Len(b) THEN DeNat(c)
    ELSE << (Limbo(a, i) + Limbo(b, i) + c) % Base >>
         \o SomaDesde(a, b, i + 1, (Limbo(a, i) + Limbo(b, i) + c) \div Base)

BigSoma(a, b) == SomaDesde(a, b, 1, 0)

\* Limbs i.. of a * k + c, for 0 <= k <= Base.
RECURSIVE MultDesde(_, _, _, _)
MultDesde(a, k, i, c) ==
    IF i > Len(a) THEN DeNat(c)
    ELSE << (a[i] * k + c) % Base >> \o MultDesde(a, k, i + 1, (a[i] * k + c) \div Base)

BigMult(a, k) == Norm(MultDesde(a, k, 1, 0))

\* << limbs 1..i of the quotient, remainder >> of dividing by n (0 < n <= Base)
\* limbs 1..i of a, preceded by the remainder r of the higher limbs.
RECURSIVE DivAte(_, _, _, _)
DivAte(a, n, i, r) ==
    IF i = 0 THEN << << >>, r >>
    ELSE Seja(DivAte(a, n, i - 1, (r * Base + a[i]) % n),
              LAMBDA qr : << Append(qr[1], (r * Base + a[i]) \div n), qr[2] >>)

\* << a div n, a mod n >>.
BigDiv(a, n) ==
    Seja(DivAte(a, n, Len(a), 0), LAMBDA qr : << Norm(qr[1]), qr[2] >>)

\* The number of binary digits of a (0 for 0).
NumBits(a) ==
    IF a = << >> THEN 0
    ELSE (Len(a) - 1) * BitsLimbo
         + (CHOOSE k \in 1..BitsLimbo : 2^(k-1) <= a[Len(a)] /\ a[Len(a)] < 2^k)

\* a * 2^s.
Esquerda(a, s) ==
    IF a = << >> THEN << >>
    ELSE [i \in 1..(s \div BitsLimbo) |-> 0] \o BigMult(a, 2^(s % BitsLimbo))

\* a div 2^s.
Direita(a, s) ==
    IF s \div BitsLimbo >= Len(a) THEN << >>
    ELSE BigDiv(SubSeq(a, (s \div BitsLimbo) + 1, Len(a)), 2^(s % BitsLimbo))[1]

\* a < b.
BigMenor(a, b) ==
    IF Len(a) # Len(b) THEN Len(a) < Len(b)
    ELSE \E i \in 1..Len(a) :
            a[i] < b[i] /\ \A j \in (i+1)..Len(a) : a[j] = b[j]

\* ------------------------------------------------------------------------
\* binary64 arithmetic (CPython float)
\* ------------------------------------------------------------------------

\* Number of significand bits of a Python float (IEEE-754 binary64).
Precisao == 53

\* The float 0.0.
Zero == [m |-> << >>, e |-> 0]

\* The float nearest to n * 2^e (plus a nonzero tail below the last bit of n
\* when resto), ties to even, for n of more than Precisao bits: s is the
\* number of bits dropped, q2 the kept bits with the first dropped bit, mant
\* the kept bits.
ArredondarLongo(n, e, resto, s) ==
    Seja(Direita(n, s - 1), LAMBDA q2 :
    Seja(Direita(q2, 1), LAMBDA mant :
        IF ~(q2[1] % 2 = 1 /\ (resto \/ Esquerda(q2, s - 1) # n \/ mant[1] % 2 = 1))
        THEN [m |-> mant, e |-> e + s]
        ELSE Seja(BigSoma(mant, << 1 >>), LAMBDA inc :
                 IF NumBits(inc) > Precisao
                 THEN [m |-> Direita(inc, 1), e |-> e + s + 1]
                 ELSE [m |-> inc, e |-> e + s])))

\* The float nearest to n0 * 2^e (plus a nonzero tail when resto).
Arredondar(n0, e, resto) ==
    Seja2(n0, NumBits(n0), LAMBDA n, l :
        IF l = 0 THEN Zero
        ELSE IF l <= Precisao
        THEN [m |-> Esquerda(n, Precisao - l), e |-> e - (Precisao - l)]
        ELSE ArredondarLongo(n, e, resto, l - Precisao))

\* float(k) for a natural number k.
DeInt(k) == Arredondar(DeNat(k), 0, FALSE)

\* x + y.
FSoma(x0, y0) ==
    Seja2(x0, y0, LAMBDA x, y :
        IF x.m = << >> THEN y
        ELSE IF y.m = << >> THEN x
        ELSE IF x.e < y.e
        THEN Arredondar(BigSoma(x.m, Esquerda(y.m, y.e - x.e)), x.e, FALSE)
        ELSE Arredondar(BigSoma(Esquerda(x.m, x.e - y.e), y.m), y.e, FALSE))

\* x / n for a natural 0 < n <= Base (the int converts to float exactly).
FDivInt(x0, n) ==
    Seja2(x0, NumBits(DeNat(n)) + 2, LAMBDA x, k :
        Seja(BigDiv(Esquerda(x.m, k), n), LAMBDA qr :
            Arredondar(qr[1], x.e - k, qr[2] # 0)))

\* x * k for a natural 0 <= k <= Base.
FMultInt(x0, k) == Seja(x0, LAMBDA x : Arredondar(BigMult(x.m, k), x.e, FALSE))

\* x < y.
FMenor(x0, y0) ==
    Seja2(x0, y0, LAMBDA x, y :
        IF y.m = << >> THEN FALSE
        ELSE IF x.m = << >> THEN TRUE
        ELSE IF x.e # y.e THEN x.e < y.e
        ELSE BigMenor(x.m, y.m))

FMaior(x, y) == FMenor(y, x)

\* int(x): the integer part of x >= 0 (small enough for the model checker).
ParteInteira(x0) ==
    Seja(x0, LAMBDA x :
        IF x.e >= 0 THEN ParaNat(Esquerda(x.m, x.e))
        ELSE ParaNat(Direita(x.m, -x.e)))

\* The float a JSON number with one decimal digit parses to: for d tenths,
\* the value nearest to d / 10.
DeDecimos(d) ==
    Seja(BigDiv(Esquerda(DeNat(d), Precisao + NumBits(DeNat(10)) + 2), 10), LAMBDA qr :
        Arredondar(qr[1], -(Precisao + NumBits(DeNat(10)) + 2), qr[2] # 0))

\* ------------------------------------------------------------------------
\* The catalogue file
\* ------------------------------------------------------------------------

\* Largest number of records of a catalogue file of the model.
MaxFilmes == 4

\* The JSON objects a catalogue file of the model is made of.  avaliacao is
\* the number as written in the file, in tenths (74 is 7.4); duracao is the
\* two-element array [horas, minutos].
Registros ==
    { [nome |-> "Alfa",  avaliacao |-> 74, diretor |-> "A", duracao |-> << 2, 0 >>,  streaming |-> TRUE],
      [nome |-> "Beta",  avaliacao |-> 60, diretor |-> "B", duracao |-> << 1, 30 >>, streaming |-> FALSE],
      [nome |-> "Gama",  avaliacao |-> 80, diretor |-> "A", duracao |-> << 1, 60 >>, streaming |-> TRUE],
      [nome |-> "Gama",  avaliacao |-> 50, diretor |-> "B", duracao |-> << 1, 30 >>, streaming |-> FALSE],
      [nome |-> "Delta", avaliacao |-> 80, diretor |-> "C", duracao |-> << 0, 45 >>, streaming |-> TRUE],
      [nome |-> "Eps",   avaliacao |-> 70, diretor |-> "C", duracao |-> << 2, 15 >>, streaming |-> FALSE] }

\* The documents (JSON arrays) a well-formed catalogue file may hold.
Documentos == UNION { [1..n -> Registros] : n \in 0..MaxFilmes }

\* What open() and json.load() find at self.arquivo_json: no file, a file
\* that is not JSON, a file that cannot be opened (any other OSError, e.g.
\* a directory or a permission error), or a JSON array.
Fontes == { "ausente", "malformado", "ilegivel", "ok" }

\* The float of every rating literal of Registros, as json.load makes it.
TabelaFloat == [d \in { r.avaliacao : r \in Registros } |-> DeDecimos(d)]

\* json.load: the parsed document; numbers with a fraction become floats.
JsonLoad(doc0) ==
    Seja(doc0, LAMBDA doc :
        [i \in 1..Len(doc) |-> [doc[i] EXCEPT !.avaliacao = TabelaFloat[@]]])

\* ------------------------------------------------------------------------
\* Results of calls
\* ------------------------------------------------------------------------

\* A call that returns v having printed nothing / the lines s, and a call
\* that raises e after printing s.
Ok(v) == [val |-> v, saida |-> << >>, erro |-> ""]
Imprime(s) == [val |-> "None", saida |-> s, erro |-> ""]
Levanta(e, s) == [val |-> "None", saida |-> s, erro |-> e]

Linha(t, v) == [tag |-> t, val |-> v]

\* x / n in Python, n an int.
Divisao(x, n) ==
    IF n = 0 THEN Levanta("ZeroDivisionError", << >>) ELSE Ok(FDivInt(x, n))

\* The empty dict {}.
DictVazio == [x \in {} |-> x]

\* ------------------------------------------------------------------------
\* EstatisticasFilmes
\* ------------------------------------------------------------------------

\* carregar_dados without its handler of json.JSONDecodeError.
carregar_dados_sem_except_json(fonte, doc) ==
    CASE fonte = "ok"         -> [val |-> JsonLoad(doc), erro |-> "",
                                  saida |-> << Linha("carregados", Len(doc)) >>]
      [] fonte = "ausente"    -> [val |-> << >>, erro |-> "",
                                  saida |-> << Linha("nao_encontrado", "") >>]
      [] fonte = "malformado" -> Levanta("JSONDecodeError", << >>)
      [] OTHER                -> Levanta("OSError", << >>)

\* carregar_dados: the list self.filmes is set to, with what is printed.
carregar_dados(fonte, doc) ==
    CASE fonte = "ok"         -> [val |-> JsonLoad(doc), erro |-> "",
                                  saida |-> << Linha("carregados", Len(doc)) >>]
      [] fonte = "ausente"    -> [val |-> << >>, erro |-> "",
                                  saida |-> << Linha("nao_encontrado", "") >>]
      [] fonte = "malformado" -> [val |-> << >>, erro |-> "",
                                  saida |-> << Linha("erro_json", "") >>]
      [] OTHER                -> Levanta("OSError", << >>)

\* sum(s) for a list of floats: 0 + s[1] + ... + s[n], left to right.
RECURSIVE Soma(_)
Soma(s) ==
    IF s = << >> THEN Zero
    ELSE FSoma(Soma(SubSeq(s, 1, Len(s) - 1)), s[Len(s)])

\* calcular_media_avaliacao without its guard for the empty list.
calcular_media_sem_guarda(f) ==
    Divisao(Soma([i \in 1..Len(f) |-> f[i].avaliacao]), Len(f))

calcular_media_avaliacao(f) ==
    IF f = << >> THEN Ok(Zero)
    ELSE LET avaliacoes == [i \in 1..Len(f) |-> f[i].avaliacao]
         IN Divisao(Soma(avaliacoes), Len(avaliacoes))

\* The list left as it is, not sorted.
SemOrdenar(s) == s

\* sorted(s) for a list of floats: ascending, stable.
RECURSIVE Sorted(_)
Sorted(s) ==
    IF s = << >> THEN << >>
    ELSE Seja2(Sorted(SubSeq(s, 1, Len(s) - 1)), s[Len(s)], LAMBDA r, x :
             Seja(Cardinality({ i \in 1..Len(r) : ~FMenor(x, r[i]) }), LAMBDA k :
                 SubSeq(r, 1, k) \o << x >> \o SubSeq(r, k + 1, Len(r))))

calcular_mediana_avaliacao(f) ==
    IF f = << >> THEN Ok(Zero)
    ELSE Seja(Sorted([i \in 1..Len(f) |-> f[i].avaliacao]), LAMBDA avaliacoes :
             LET n == Len(avaliacoes)
             IN IF n % 2 = 0
                THEN Divisao(FSoma(avaliacoes[(n \div 2 - 1) + 1],
                                   avaliacoes[(n \div 2) + 1]), 2)
                ELSE Ok(avaliacoes[(n \div 2) + 1]))

\* list.sort(key=avaliacao, reverse=True): descending, stable.
RECURSIVE SortAvaliacaoReverse(_)
SortAvaliacaoReverse(s) ==
    IF s = << >> THEN << >>
    ELSE Seja2(SortAvaliacaoReverse(SubSeq(s, 1, Len(s) - 1)), s[Len(s)], LAMBDA r, x :
             Seja(Cardinality({ i \in 1..Len(r) : ~FMenor(r[i].avaliacao, x.avaliacao) }),
                  LAMBDA k : SubSeq(r, 1, k) \o << x >> \o SubSeq(r, k + 1, Len(r))))

\* The filter with >= in place of >.
AcimaOuIgual(filme, limite) == ~FMenor(filme.avaliacao, limite)

Acima(filme, limite) == FMaior(filme.avaliacao, limite)

Nomes(s0) == Seja(s0, LAMBDA s : [i \in 1..Len(s) |-> s[i].nome])

\* filmes_acima_avaliacao that never sorts.
filmes_acima_sem_ordenar(f, limite, ordenar) ==
    IF f = << >> THEN Ok(<< >>)
    ELSE Ok(Nomes(SelectSeq(f, LAMBDA filme : Acima(filme, limite))))

filmes_acima_avaliacao(f, limite, ordenar) ==
    IF f = << >> THEN Ok(<< >>)
    ELSE Seja(SelectSeq(f, LAMBDA filme : Acima(filme, limite)), LAMBDA filtrados :
             Ok(Nomes(IF ordenar THEN SortAvaliacaoReverse(filtrados) ELSE filtrados)))

\* self.filmes after a filmes_acima_avaliacao that sorts self.filmes in place.
filmes_apos_acima_no_lugar(f, limite, ordenar) ==
    IF ordenar THEN SortAvaliacaoReverse(f) ELSE f

\* self.filmes after filmes_acima_avaliacao: the comprehension builds a new
\* list, and it is that list the sort reorders.
filmes_apos_acima(f, limite, ordenar) == f

filmes_em_streaming(f) ==
    Ok(Nomes(SelectSeq(f, LAMBDA filme : filme.streaming)))

duracao_em_minutos(duracao_tuple) == duracao_tuple[1] * 60 + duracao_tuple[2]

\* max(f[1..i], key=duracao_em_minutos) and min: a left-to-right scan that
\* replaces the best so far only by a strictly better element.
\* The scan for the longest that keeps the last of several equal maxima.
RECURSIVE MaxDuracaoUltimo(_, _)
MaxDuracaoUltimo(f, i) ==
    IF i = 1 THEN f[1]
    ELSE Seja(MaxDuracaoUltimo(f, i - 1), LAMBDA b :
             IF duracao_em_minutos(f[i].duracao) >= duracao_em_minutos(b.duracao)
             THEN f[i] ELSE b)

RECURSIVE MaxDuracao(_, _)
MaxDuracao(f, i) ==
    IF i = 1 THEN f[1]
    ELSE Seja(MaxDuracao(f, i - 1), LAMBDA b :
             IF duracao_em_minutos(f[i].duracao) > duracao_em_minutos(b.duracao)
             THEN f[i] ELSE b)

RECURSIVE MinDuracao(_, _)
MinDuracao(f, i) ==
    IF i = 1 THEN f[1]
    ELSE Seja(MinDuracao(f, i - 1), LAMBDA b :
             IF duracao_em_minutos(f[i].duracao) < duracao_em_minutos(b.duracao)
             THEN f[i] ELSE b)

extremos_duracao(f) ==
    IF f = << >> THEN Ok(<< DictVazio, DictVazio >>)
    ELSE Ok(<< MaxDuracao(f, Len(f)), MinDuracao(f, Len(f)) >>)

\* Counter(s): the (key, count) pairs, in order of first occurrence.
RECURSIVE Counter(_)
Counter(s) ==
    IF s = << >> THEN << >>
    ELSE Seja2(Counter(SubSeq(s, 1, Len(s) - 1)), s[Len(s)], LAMBDA c, x :
             IF \E i \in 1..Len(c) : c[i][1] = x
             THEN [i \in 1..Len(c) |-> IF c[i][1] = x THEN << x, c[i][2] + 1 >> ELSE c[i]]
             ELSE Append(c, << x, 1 >>))

\* max of a non-empty list of ints.
MaxInt(s0) ==
    Seja(s0, LAMBDA s : CHOOSE m \in { s[i] : i \in 1..Len(s) } : \A i \in 1..Len(s) : s[i] <= m)

\* moda_diretores that returns the first most frequent director only.
moda_diretores_primeiro(f) ==
    IF f = << >> THEN Ok(<< >>)
    ELSE Seja(Counter([i \in 1..Len(f) |-> f[i].diretor]), LAMBDA contador :
             Seja(MaxInt([i \in 1..Len(contador) |-> contador[i][2]]), LAMBDA max_contagem :
                 Ok(<< contador[CHOOSE i \in 1..Len(contador) :
                                   /\ contador[i][2] = max_contagem
                                   /\ \A j \in 1..(i-1) : contador[j][2] # max_contagem] >>)))

moda_diretores(f) ==
    IF f = << >> THEN Ok(<< >>)
    ELSE LET diretores == [i \in 1..Len(f) |-> f[i].diretor]
         IN Seja(Counter(diretores), LAMBDA contador :
                IF contador = << >> THEN Ok(<< >>)
                ELSE Seja(MaxInt([i \in 1..Len(contador) |-> contador[i][2]]),
                          LAMBDA max_contagem :
                              Ok(SelectSeq(contador, LAMBDA par : par[2] = max_contagem))))

\* f"{horas}h{minutos:02d}min"
Formato(horas0, minutos0) ==
    Seja2(horas0, minutos0, LAMBDA horas, minutos :
        ToString(horas) \o "h" \o (IF minutos < 10 THEN "0" ELSE "")
        \o ToString(minutos) \o "min")

formatar_duracao(duracao_tuple) == Formato(duracao_tuple[1], duracao_tuple[2])

\* max(f[1..i], key=avaliacao) and min, scanned as above.
RECURSIVE MaxAvaliacao(_, _)
MaxAvaliacao(f, i) ==
    IF i = 1 THEN f[1]
    ELSE Seja(MaxAvaliacao(f, i - 1), LAMBDA b :
             IF FMaior(f[i].avaliacao, b.avaliacao) THEN f[i] ELSE b)

RECURSIVE MinAvaliacao(_, _)
MinAvaliacao(f, i) ==
    IF i = 1 THEN f[1]
    ELSE Seja(MinAvaliacao(f, i - 1), LAMBDA b :
             IF FMenor(f[i].avaliacao, b.avaliacao) THEN f[i] ELSE b)

\* sum(s) for a list of ints.
RECURSIVE SomaInt(_)
SomaInt(s) == IF s = << >> THEN 0 ELSE SomaInt(SubSeq(s, 1, Len(s) - 1)) + s[Len(s)]

\* int(x // k) and int(x % k) for a float x >= 0 and an int k > 0: both are
\* exact in float arithmetic, so they are those of the integer part of x.
FloorDivInt(x, k) == ParteInteira(x) \div k
ModInt(x, k) == ParteInteira(x) % k

exibir_estatisticas_adicionais(f) ==
    LET cab == << Linha("titulo", "ESTATISTICAS ADICIONAIS") >>
        total_streaming == Len(filmes_em_streaming(f).val)
        duracoes == [i \in 1..Len(f) |-> duracao_em_minutos(f[i].duracao)]
    IN Seja(Divisao(DeInt(total_streaming), Len(f)), LAMBDA q :
       IF q.erro # "" THEN Levanta(q.erro, cab)
       ELSE Seja2(MaxAvaliacao(f, Len(f)), MinAvaliacao(f, Len(f)),
                  LAMBDA melhor_avaliado, pior_avaliado :
            Seja(Divisao(DeInt(SomaInt(duracoes)), Len(duracoes)).val,
                 LAMBDA duracao_media_min :
            Imprime(cab \o
                 << Linha("porcentagem", FMultInt(q.val, 100)),
                    Linha("melhor", << melhor_avaliado.nome, melhor_avaliado.avaliacao >>),
                    Linha("pior", << pior_avaliado.nome, pior_avaliado.avaliacao >>),
                    Linha("duracao_media", Formato(FloorDivInt(duracao_media_min, 60),
                                                   ModInt(duracao_media_min, 60))) >>))))

\* The defaults of filmes_acima_avaliacao: limite = 6.0 (60 tenths),
\* ordenar = True; and the limite = 7.5 of the demonstration.
LimiteDefaultDecimos == 60
LimiteDemoDecimos == 75
LimiteDefault == DeDecimos(LimiteDefaultDecimos)
LimiteDemo == DeDecimos(LimiteDemoDecimos)
OrdenarDefault == TRUE

\* next((x['avaliacao'] for x in f if x['nome'] == nome), "N/A")
AvaliacaoDe(f, nome) ==
    IF \E i \in 1..Len(f) : f[i].nome = nome
    THEN f[CHOOSE i \in 1..Len(f) :
               f[i].nome = nome /\ \A j \in 1..(i-1) : f[j].nome # nome].avaliacao
    ELSE "N/A"

\* The lines of the list of titles rated above 6.0, of the streaming list,
\* of the pair of extremes and of the most frequent directors.
LinhasAcima(f, filmes_acima_6) ==
    << Linha("acima_total", Len(filmes_acima_6)) >>
    \o [i \in 1..Len(filmes_acima_6) |->
           Linha("acima", << i, filmes_acima_6[i], AvaliacaoDe(f, filmes_acima_6[i]) >>)]

LinhasStreaming(filmes_streaming) ==
    << Linha("streaming_total", Len(filmes_streaming)) >>
    \o [i \in 1..Len(filmes_streaming) |-> Linha("streaming", << i, filmes_streaming[i] >>)]

LinhasExtremos(mais_longo, mais_curto) ==
    IF mais_longo # DictVazio /\ mais_curto # DictVazio
    THEN << Linha("mais_longo", << mais_longo.nome, mais_longo.diretor,
                                   formatar_duracao(mais_longo.duracao) >>),
            Linha("mais_curto", << mais_curto.nome, mais_curto.diretor,
                                   formatar_duracao(mais_curto.duracao) >>) >>
    ELSE << >>

LinhasModa(f, moda) ==
    [i \in 1..Len(moda) |->
        Linha("diretor", << moda[i][1], moda[i][2],
                            Nomes(SelectSeq(f, LAMBDA x : x.diretor = moda[i][1])) >>)]

exibir_estatisticas_completas(f) ==
    IF f = << >> THEN Imprime(<< Linha("nenhum_dado", "") >>)
    ELSE
    Seja2(filmes_acima_avaliacao(f, LimiteDefault, OrdenarDefault).val,
          filmes_em_streaming(f).val, LAMBDA filmes_acima_6, filmes_streaming :
    Seja2(extremos_duracao(f).val, moda_diretores(f).val, LAMBDA extremos, moda :
    Seja(exibir_estatisticas_adicionais(f), LAMBDA adicionais :
        [val |-> "None",
         erro |-> adicionais.erro,
         saida |->
            << Linha("titulo", "ANALISE ESTATISTICA"),
               Linha("total", Len(f)),
               Linha("media", calcular_media_avaliacao(f).val),
               Linha("mediana", calcular_mediana_avaliacao(f).val) >>
            \o LinhasAcima(f, filmes_acima_6)
            \o LinhasStreaming(filmes_streaming)
            \o LinhasExtremos(extremos[1], extremos[2])
            \o LinhasModa(f, moda)
            \o adicionais.saida])))

demonstrar_funcoes_avaliacao(f) ==
    Seja2(filmes_acima_avaliacao(f, LimiteDefault, OrdenarDefault).val,
          filmes_acima_avaliacao(f, LimiteDemo, OrdenarDefault).val,
          LAMBDA filmes_default, filmes_75 :
    Seja(filmes_acima_avaliacao(f, LimiteDefault, FALSE).val, LAMBDA filmes_nao_ordenados :
        Imprime(<< Linha("titulo", "DEMONSTRACAO"),
                   Linha("default", Len(filmes_default)),
                   Linha("limite_75", Len(filmes_75)) >>
                \o [i \in 1..Len(filmes_75) |-> Linha("filme_75", filmes_75[i])]
                \o << Linha("nao_ordenados", Len(filmes_nao_ordenados)) >>)))

\* ------------------------------------------------------------------------
\* State
\* ------------------------------------------------------------------------

VARIABLES
    fonte,      \* what is found at the path of the catalogue file (Fontes)
    documento,  \* the JSON array the file holds, when fonte = "ok"
    cliente,    \* who uses the class: "main" (the script) or "api" (a caller)
    pc,         \* position of the client
    filmes,     \* self.filmes
    chamada,    \* the method being called by the api client, with its arguments
    ret,        \* its return value
    erro,       \* the exception raised, "" for none
    saida,      \* the lines printed by the current top-level invocation
    etapas      \* the steps main has run

vars == << fonte, documento, cliente, pc, filmes, chamada, ret, erro, saida, etapas >>

Nenhuma == [op |-> "", args |-> << >>]

\* The thresholds and the [horas, minutos] pairs the api client passes.
Limites == { LimiteDefault, LimiteDemo, DeDecimos(80) }
Duracoes == { << 2, 5 >>, << 1, 60 >> }

Init ==
    /\ fonte \in Fontes
    /\ documento \in IF fonte = "ok" THEN Documentos ELSE { << >> }
    /\ cliente \in { "main", "api" }
    /\ pc = "inicio"
    /\ filmes = << >>
    /\ chamada = Nenhuma
    /\ ret = "None"
    /\ erro = ""
    /\ saida = << >>
    /\ etapas = << >>

Ambiente == UNCHANGED << fonte, documento, cliente >>

\* ------------------------------------------------------------------------
\* A caller of the class
\* ------------------------------------------------------------------------

\* EstatisticasFilmes(arquivo_json)
Construir ==
    /\ cliente = "api" /\ pc = "inicio"
    /\ \E r \in { carregar_dados(fonte, documento) } :
          /\ pc' = IF r.erro = "" THEN "pronto" ELSE "abortado"
          /\ filmes' = IF r.erro = "" THEN r.val ELSE filmes
          /\ erro' = r.erro
          /\ saida' = r.saida
    /\ UNCHANGED << chamada, ret, etapas >>
    /\ Ambiente

\* The call op(args) with result r, leaving self.filmes as f.
Chamar(op, args, r0, f) ==
    /\ cliente = "api" /\ pc = "pronto"
    /\ pc' = "retornou"
    /\ chamada' = [op |-> op, args |-> args]
    /\ \E r \in { r0 } :
          /\ ret' = r.val
          /\ erro' = r.erro
          /\ saida' = r.saida
    /\ filmes' = f
    /\ UNCHANGED etapas
    /\ Ambiente

Chamar_calcular_media_avaliacao ==
    Chamar("calcular_media_avaliacao", << >>, calcular_media_avaliacao(filmes), filmes)

Chamar_calcular_mediana_avaliacao ==
    Chamar("calcular_mediana_avaliacao", << >>, calcular_mediana_avaliacao(filmes), filmes)

Chamar_filmes_acima_avaliacao ==
    \E limite \in Limites, ordenar \in BOOLEAN :
        Chamar("filmes_acima_avaliacao", << limite, ordenar >>,
               filmes_acima_avaliacao(filmes, limite, ordenar),
               filmes_apos_acima(filmes, limite, ordenar))

Chamar_filmes_em_streaming ==
    Chamar("filmes_em_streaming", << >>, filmes_em_streaming(filmes), filmes)

Chamar_duracao_em_minutos ==
    \E d \in Duracoes :
        Chamar("duracao_em_minutos", << d >>, Ok(duracao_em_minutos(d)), filmes)

Chamar_extremos_duracao ==
    Chamar("extremos_duracao", << >>, extremos_duracao(filmes), filmes)

Chamar_moda_diretores ==
    Chamar("moda_diretores", << >>, moda_diretores(filmes), filmes)

Chamar_formatar_duracao ==
    \E d \in Duracoes :
        Chamar("formatar_duracao", << d >>, Ok(formatar_duracao(d)), filmes)

Chamar_exibir_estatisticas_completas ==
    Chamar("exibir_estatisticas_completas", << >>, exibir_estatisticas_completas(filmes), filmes)

Chamar_exibir_estatisticas_adicionais ==
    Chamar("exibir_estatisticas_adicionais", << >>, exibir_estatisticas_adicionais(filmes), filmes)

Chamar_demonstrar_funcoes_avaliacao ==
    Chamar("demonstrar_funcoes_avaliacao", << >>, demonstrar_funcoes_avaliacao(filmes), filmes)

\* The caller takes the result (or catches the exception) and goes on.
Retornar ==
    /\ cliente = "api" /\ pc = "retornou"
    /\ pc' = "pronto"
    /\ chamada' = Nenhuma
    /\ ret' = "None"
    /\ erro' = ""
    /\ saida' = << >>
    /\ UNCHANGED << filmes, etapas >>
    /\ Ambiente

\* ------------------------------------------------------------------------
\* main()
\* ------------------------------------------------------------------------

\* The banner, then estatisticas = EstatisticasFilmes("catalogo_filmes.json").
MainConstruir ==
    /\ cliente = "main" /\ pc = "inicio"
    /\ \E r \in { carregar_dados(fonte, documento) } :
          /\ pc' = IF r.erro = "" THEN "construido" ELSE "abortado"
          /\ filmes' = IF r.erro = "" THEN r.val ELSE filmes
          /\ erro' = r.erro
          /\ saida' = << Linha("main", "ETAPA 2") >> \o r.saida
    /\ etapas' = Append(etapas, "construir")
    /\ UNCHANGED << chamada, ret >>
    /\ Ambiente

\* if estatisticas.filmes: estatisticas.exibir_estatisticas_completas()
MainRelatorio ==
    /\ cliente = "main" /\ pc = "construido" /\ filmes # << >>
    /\ \E r \in { exibir_estatisticas_completas(filmes) } :
          /\ pc' = IF r.erro = "" THEN "relatado" ELSE "abortado"
          /\ erro' = r.erro
          /\ saida' = saida \o r.saida
    /\ etapas' = Append(etapas, "exibir_estatisticas_completas")
    /\ UNCHANGED << filmes, chamada, ret >>
    /\ Ambiente

\* estatisticas.demonstrar_funcoes_avaliacao()
MainDemonstracao ==
    /\ cliente = "main" /\ pc = "relatado"
    /\ \E r \in { demonstrar_funcoes_avaliacao(filmes) } :
          /\ pc' = IF r.erro = "" THEN "demonstrado" ELSE "abortado"
          /\ erro' = r.erro
          /\ saida' = saida \o r.saida
    /\ etapas' = Append(etapas, "demonstrar_funcoes_avaliacao")
    /\ UNCHANGED << filmes, chamada, ret >>
    /\ Ambiente

\* The closing banner.
MainConcluir ==
    /\ cliente = "main" /\ pc = "demonstrado"
    /\ pc' = "fim"
    /\ saida' = Append(saida, Linha("main", "ETAPA 2 CONCLUIDA COM SUCESSO"))
    /\ etapas' = Append(etapas, "concluir")
    /\ UNCHANGED << filmes, chamada, ret, erro >>
    /\ Ambiente

\* else: the message that no data could be loaded.
MainSemDados ==
    /\ cliente = "main" /\ pc = "construido" /\ filmes = << >>
    /\ pc' = "fim"
    /\ saida' = Append(saida, Linha("main", "NAO FOI POSSIVEL CARREGAR DADOS"))
    /\ etapas' = Append(etapas, "sem_dados")
    /\ UNCHANGED << filmes, chamada, ret, erro >>
    /\ Ambiente

Next ==
    \/ Construir
    \/ Chamar_calcular_media_avaliacao
    \/ Chamar_calcular_mediana_avaliacao
    \/ Chamar_filmes_acima_avaliacao
    \/ Chamar_filmes_em_streaming
    \/ Chamar_duracao_em_minutos
    \/ Chamar_extremos_duracao
    \/ Chamar_moda_diretores
    \/ Chamar_formatar_duracao
    \/ Chamar_exibir_estatisticas_completas
    \/ Chamar_exibir_estatisticas_adicionais
    \/ Chamar_demonstrar_funcoes_avaliacao
    \/ Retornar
    \/ MainConstruir
    \/ MainRelatorio
    \/ MainDemonstracao
    \/ MainConcluir
    \/ MainSemDados

Spec == Init /\ [][Next]_vars
\* ------------------------------------------------------------------------
\* Properties
\* ------------------------------------------------------------------------

\* The api client holds the result of a call of op.
Retornou(op) == cliente = "api" /\ pc = "retornou" /\ chamada.op = op

Indices == 1..Len(filmes)

\* C1: on an empty collection none of the six aggregates raises and each
\* returns its sentinel: 0.0 for the mean and the median, [] for
\* filmes_acima_avaliacao (any limite, any ordenar), filmes_em_streaming and
\* moda_diretores, and ({}, {}) for extremos_duracao.
C1_SentinelasDaColecaoVazia ==
    (cliente = "api" /\ pc = "retornou" /\ filmes = << >>) =>
        /\ chamada.op = "calcular_media_avaliacao" => erro = "" /\ ret = Zero
        /\ chamada.op = "calcular_mediana_avaliacao" => erro = "" /\ ret = Zero
        /\ chamada.op = "filmes_acima_avaliacao" => erro = "" /\ ret = << >>
        /\ chamada.op = "filmes_em_streaming" => erro = "" /\ ret = << >>
        /\ chamada.op = "moda_diretores" => erro = "" /\ ret = << >>
        /\ chamada.op = "extremos_duracao" => erro = "" /\ ret = << DictVazio, DictVazio >>

C1_Testemunha ==
    /\ Retornou("calcular_media_avaliacao")
    /\ fonte = "ausente" /\ filmes = << >>
    /\ erro = "" /\ ret = Zero

\* The rating at 0-based index k of the ratings sorted ascending with
\* duplicates kept: the rating with at most k ratings below it and more
\* than k ratings not above it.
AvaliacaoNaPosicao(f, k) ==
    CHOOSE v \in { f[i].avaliacao : i \in 1..Len(f) } :
        /\ Cardinality({ i \in 1..Len(f) : FMenor(f[i].avaliacao, v) }) <= k
        /\ Cardinality({ i \in 1..Len(f) : ~FMenor(v, f[i].avaliacao) }) > k

\* A collection of records with the given (integer) ratings.
ComAvaliacoes(a) ==
    [i \in 1..Len(a) |-> [nome |-> "x", avaliacao |-> DeInt(a[i]), diretor |-> "A",
                          duracao |-> << 1, 0 >>, streaming |-> TRUE]]

\* The two examples of the median: [3,5,7] and [2,4,6,8] both give 5.
ExemplosDaMediana ==
    /\ calcular_mediana_avaliacao(ComAvaliacoes(<< 3, 5, 7 >>)).val = DeInt(5)
    /\ calcular_mediana_avaliacao(ComAvaliacoes(<< 2, 4, 6, 8 >>)).val = DeInt(5)

\* C2: for a non-empty collection of n records the median is, over the
\* ratings sorted ascending, the element at 0-based index n/2 when n is odd
\* and the average of those at n/2 - 1 and n/2 when n is even, whatever the
\* order of the records; [3,5,7] gives 5 and [2,4,6,8] gives 5.
C2_Mediana ==
    /\ (Retornou("calcular_mediana_avaliacao") /\ filmes # << >>) =>
          /\ erro = ""
          /\ LET n == Len(filmes)
             IN IF n % 2 = 1
                THEN ret = AvaliacaoNaPosicao(filmes, n \div 2)
                ELSE ret = FDivInt(FSoma(AvaliacaoNaPosicao(filmes, n \div 2 - 1),
                                         AvaliacaoNaPosicao(filmes, n \div 2)), 2)
    /\ ExemplosDaMediana

C2_Testemunha ==
    /\ Retornou("calcular_mediana_avaliacao")
    /\ Len(filmes) = 4
    /\ [i \in 1..4 |-> filmes[i].avaliacao]
         = << DeDecimos(80), DeDecimos(50), DeDecimos(70), DeDecimos(60) >>
    /\ ret = DeDecimos(65)

\* The indices of the records rated strictly above limite.
IndicesAcima(limite) == { i \in Indices : FMaior(filmes[i].avaliacao, limite) }

\* Record i comes before record j in the result: by rating descending and,
\* for equal ratings, in the original order, when ordenar; in the original
\* order otherwise.
VemAntes(i, j, ordenar) ==
    IF ordenar
    THEN \/ FMaior(filmes[i].avaliacao, filmes[j].avaliacao)
         \/ filmes[i].avaliacao = filmes[j].avaliacao /\ i < j
    ELSE i < j

\* C3: filmes_acima_avaliacao(limite, ordenar) returns one name for each
\* record rated strictly above limite and no other; by rating descending
\* with equal ratings in their original order when ordenar, in the original
\* order otherwise.
C3_FilmesAcima ==
    Retornou("filmes_acima_avaliacao") =>
        LET limite  == chamada.args[1]
            ordenar == chamada.args[2]
            acima   == IndicesAcima(limite)
        IN /\ erro = ""
           /\ Len(ret) = Cardinality(acima)
           /\ \A i \in acima :
                 ret[Cardinality({ j \in acima : VemAntes(j, i, ordenar) }) + 1]
                    = filmes[i].nome

C3_Testemunha ==
    /\ Retornou("filmes_acima_avaliacao")
    /\ chamada.args = << LimiteDefault, TRUE >>
    /\ Len(filmes) = 4
    /\ Nomes(filmes) = << "Alfa", "Delta", "Beta", "Gama" >>
    /\ filmes[3].avaliacao = LimiteDefault
    /\ filmes[4].avaliacao = filmes[2].avaliacao
    /\ ret = << "Delta", "Gama", "Alfa" >>

Minutos(filme) == filme.duracao[1] * 60 + filme.duracao[2]

\* C4: for a non-empty collection extremos_duracao returns the record at the
\* smallest index whose duration in minutes is the maximum, and the record
\* at the smallest index whose duration in minutes is the minimum.
C4_ExtremosDuracao ==
    (Retornou("extremos_duracao") /\ filmes # << >>) =>
        /\ erro = ""
        /\ \E i \in Indices :
              /\ \A j \in Indices : Minutos(filmes[j]) <= Minutos(filmes[i])
              /\ \A j \in 1..(i-1) : Minutos(filmes[j]) < Minutos(filmes[i])
              /\ ret[1] = filmes[i]
        /\ \E i \in Indices :
              /\ \A j \in Indices : Minutos(filmes[j]) >= Minutos(filmes[i])
              /\ \A j \in 1..(i-1) : Minutos(filmes[j]) > Minutos(filmes[i])
              /\ ret[2] = filmes[i]

C4_Testemunha ==
    /\ Retornou("extremos_duracao")
    /\ Len(filmes) = 4
    /\ [i \in 1..4 |-> filmes[i].duracao] = << << 1, 30 >>, << 2, 0 >>, << 1, 60 >>, << 1, 30 >> >>
    /\ filmes[4] # filmes[1]
    /\ ret = << filmes[2], filmes[1] >>

Diretores == { filmes[i].diretor : i \in Indices }
NumFilmesDe(d) == Cardinality({ i \in Indices : filmes[i].diretor = d })

\* C5: for a non-empty collection moda_diretores returns exactly one pair
\* (director, count) for each director with the largest number of records,
\* count being that number, and no pair for any other director.
C5_ModaDiretores ==
    (Retornou("moda_diretores") /\ filmes # << >>) =>
        LET modais == { d \in Diretores : \A x \in Diretores : NumFilmesDe(x) <= NumFilmesDe(d) }
        IN /\ erro = ""
           /\ Len(ret) = Cardinality(modais)
           /\ { ret[k] : k \in 1..Len(ret) } = { << d, NumFilmesDe(d) >> : d \in modais }

C5_Testemunha ==
    /\ Retornou("moda_diretores")
    /\ [i \in Indices |-> filmes[i].diretor] = << "A", "C", "B", "A" >>
    /\ ret = << << "A", 2 >> >>

C5_TestemunhaEmpate ==
    /\ Retornou("moda_diretores")
    /\ [i \in Indices |-> filmes[i].diretor] = << "A", "B", "A", "B" >>
    /\ ret = << << "A", 2 >>, << "B", 2 >> >>

\* C6: for a non-empty collection the mean lies between the smallest and the
\* largest rating present, both included.
C6_MediaEntreMinimoEMaximo ==
    (Retornou("calcular_media_avaliacao") /\ filmes # << >>) =>
        /\ \E i \in Indices : ~FMenor(ret, filmes[i].avaliacao)
        /\ \E i \in Indices : ~FMaior(ret, filmes[i].avaliacao)

\* The collection carregar_dados built.
Carregada == carregar_dados(fonte, documento).val

\* What the call op(args) of an aggregate returns on the collection f.
Resultado(op, args, f) ==
    CASE op = "calcular_media_avaliacao" -> calcular_media_avaliacao(f).val
      [] op = "calcular_mediana_avaliacao" -> calcular_mediana_avaliacao(f).val
      [] op = "filmes_acima_avaliacao" -> filmes_acima_avaliacao(f, args[1], args[2]).val
      [] op = "filmes_em_streaming" -> filmes_em_streaming(f).val
      [] op = "extremos_duracao" -> extremos_duracao(f).val
      [] op = "moda_diretores" -> moda_diretores(f).val

Agregados ==
    { "calcular_media_avaliacao", "calcular_mediana_avaliacao", "filmes_acima_avaliacao",
      "filmes_em_streaming", "extremos_duracao", "moda_diretores" }

\* C7: after any sequence of calls self.filmes is, in content and order, the
\* collection that was loaded, so that every call of an aggregate returns
\* what that call returns on the loaded collection.
C7_ColecaoInalterada ==
    /\ pc \notin { "inicio", "abortado" } => filmes = Carregada
    /\ (cliente = "api" /\ pc = "retornou" /\ chamada.op \in Agregados) =>
          ret = Resultado(chamada.op, chamada.args, Carregada)

C7_Testemunha ==
    /\ Retornou("filmes_acima_avaliacao")
    /\ chamada.args = << LimiteDefault, TRUE >>
    /\ Nomes(filmes) = << "Beta", "Alfa", "Delta" >>
    /\ ret = << "Delta", "Alfa" >>
    /\ filmes = Carregada

\* C8: the streaming percentage never fails on an empty collection: with no
\* record, exibir_estatisticas_adicionais, called directly or through
\* exibir_estatisticas_completas and main, raises no error.
C8_PorcentagemSemErro ==
    filmes = << >> => erro # "ZeroDivisionError"

NomesDistintos == \A i, j \in Indices : filmes[i].nome = filmes[j].nome => i = j

\* The lines of the list of titles rated above 6.0 printed by the report.
LinhasAcimaImpressas == SelectSeq(saida, LAMBDA l : l.tag = "acima")

\* C10: in the full report of a collection with pairwise distinct names,
\* the rating printed beside each title of the list of titles rated above
\* 6.0 is that of the record with that title, which passed the filter, so
\* it is above 6.0; and the printed ratings do not increase down the list.
C10_AvaliacoesImpressas ==
    NomesDistintos =>
        LET la == LinhasAcimaImpressas
        IN /\ \A k \in 1..Len(la) :
                 /\ la[k].val[1] = k
                 /\ FMaior(la[k].val[3], DeInt(6))
                 /\ \E i \in Indices :
                       /\ filmes[i].nome = la[k].val[2]
                       /\ filmes[i].avaliacao = la[k].val[3]
           /\ \A k \in 1..(Len(la) - 1) : ~FMenor(la[k].val[3], la[k+1].val[3])
           /\ (la # << >> \/ pc = "relatado") =>
                 Len(la) = Cardinality({ i \in Indices : FMaior(filmes[i].avaliacao, DeInt(6)) })

C10_Testemunha ==
    /\ cliente = "main" /\ pc = "fim"
    /\ NomesDistintos
    /\ Nomes(filmes) = << "Alfa", "Beta", "Delta", "Eps" >>
    /\ [k \in 1..Len(LinhasAcimaImpressas) |-> LinhasAcimaImpressas[k].val[2]]
          = << "Delta", "Alfa", "Eps" >>

====
